---- MODULE Spec2Model ----
(***************************************************************************)
(* Turn orchestration and voice-capture state machine of src/src/ui.py.    *)
(*                                                                         *)
(* The state is Streamlit's st.session_state (one variable per key the     *)
(* orchestrator uses), the persistence backend, and a record of what the   *)
(* last handler run did (turn).  Every user interaction is one action: the *)
(* callback or script block runs to completion, or to the exception that   *)
(* leaves it.  Handlers are operators on a "world" record w that holds the *)
(* session keys, the backend, the trace of the run and the pending         *)
(* exception, so that a call sequence of the source reads as a chain of    *)
(* operator applications.                                                  *)
(***************************************************************************)
EXTENDS Naturals, Sequences, FiniteSets, TLC

VARIABLES
    recording,                      \* the mic_recorder component is capturing
    conversation,                   \* st.session_state.conversation
    current_language_code,          \* st.session_state.current_language_code
    symptom_checker_active,         \* st.session_state.symptom_checker_active
    symptom_checker_instance,       \* st.session_state.symptom_checker_instance
    pending_symptom_question_data,  \* st.session_state.pending_symptom_question_data
    voice_input_stage,              \* st.session_state.voice_input_stage
    captured_audio_data,            \* st.session_state.captured_audio_data
    cleaned_audio_data,             \* st.session_state.cleaned_audio_data
    extracted_symptoms,             \* st.session_state.extracted_symptoms
    follow_up_answers,              \* st.session_state.follow_up_answers
    last_advice_given,              \* st.session_state.last_advice_given
    user_profile,                   \* st.session_state.user_profile
    supabase_configured,            \* is_supabase_configured()
    supabase_session,               \* st.session_state.supabase_session
    chat_list,                      \* st.session_state.chat_list
    current_chat_id,                \* st.session_state.current_chat_id
    persistent_memory,              \* st.session_state.persistent_memory
    db_chats,                       \* backend: conversation records
    db_memory,                      \* backend: per-user memory
    db_profile,                     \* backend: per-user profile
    turn                            \* what the last handler run did

vars == <<recording, conversation, current_language_code, symptom_checker_active,
          symptom_checker_instance, pending_symptom_question_data,
          voice_input_stage, captured_audio_data, cleaned_audio_data,
          extracted_symptoms, follow_up_answers, last_advice_given,
          user_profile, supabase_configured, supabase_session, chat_list,
          current_chat_id, persistent_memory, db_chats, db_memory,
          db_profile, turn>>

----------------------------------------------------------------------------
(* Bounds of the model. *)

\* longest conversation log from which a further turn is started
MaxConv == 3
\* most follow-up questions a symptom checker instance prepares
MaxQuestions == 2
\* most follow_up_answers entries from which a further turn is started
MaxAnswers == 2
\* most conversation records the backend holds
MaxChats == 2

----------------------------------------------------------------------------
(* Python values. *)

\* Python's None, and an optional value that is not None
None == <<>>
Some(x) == <<x>>
Get(o) == o[1]
\* Python truthiness of an optional dict / object
Truthy(o) == o /= None

\* a text: what it says, the language it is in, its number of characters
Text(body, lang, len) == [body |-> body, lang |-> lang, len |-> len]
EmptyText == Text(<<>>, "", 0)

\* str.strip() on the inputs of the model
strip(t) == IF t.body = <<" ">> THEN EmptyText ELSE t

\* lang_code.split('-')[0]
LangPrefix(code) == IF code = "en-IN" THEN "en" ELSE "hi"

\* the two chat languages of the model (LANGUAGE_MAP has eight)
LanguageCodes == {"en-IN", "hi-IN"}

\* s[:n] on a text
Truncate(t, n) == IF t.len > n THEN [t EXCEPT !.len = n] ELSE t

\* an event of the trace of a handler run
Event(ev, role, content) == [ev |-> ev, role |-> role, content |-> content]

\* a fault injected into a handler run: the collaborator call that raises
\* (who names the persisted role for backend calls)
Fault(pt, who) == [pt |-> pt, who |-> who]
NoFault == Fault("none", "")

----------------------------------------------------------------------------
(* The world a handler runs in. *)

\* the session keys and the backend as one record, with an empty trace
World(e) ==
    [conversation |-> conversation,
     current_language_code |-> current_language_code,
     symptom_checker_active |-> symptom_checker_active,
     symptom_checker_instance |-> symptom_checker_instance,
     pending_symptom_question_data |-> pending_symptom_question_data,
     voice_input_stage |-> voice_input_stage,
     captured_audio_data |-> captured_audio_data,
     cleaned_audio_data |-> cleaned_audio_data,
     extracted_symptoms |-> extracted_symptoms,
     follow_up_answers |-> follow_up_answers,
     last_advice_given |-> last_advice_given,
     user_profile |-> user_profile,
     supabase_configured |-> supabase_configured,
     supabase_session |-> supabase_session,
     chat_list |-> chat_list,
     current_chat_id |-> current_chat_id,
     persistent_memory |-> persistent_memory,
     db_chats |-> db_chats,
     db_memory |-> db_memory,
     db_profile |-> db_profile,
     context |-> None,    \* the session context handed to the generator
     trace |-> <<>>,      \* the calls and appends of this run, in order
     exc |-> FALSE,       \* an exception is propagating
     env |-> e,           \* what the collaborators return in this run
     fault |-> e.fault,   \* the collaborator call that raises in this run
     fired |-> FALSE]     \* the fault was hit

Log(w, ev, role, content) ==
    [w EXCEPT !.trace = Append(@, Event(ev, role, content))]

\* the collaborator call pt raises in this run
Raises(w, pt, who) == w.fault = Fault(pt, who)

\* the kinds of failure: a collaborator of the routing, the rendering of an
\* assessment, the capture and transcription of audio, the backend
FailureKinds == {"routing", "rendering", "voice", "backend"}

\* an exception leaves the call pt
Raise(w, pt, kind) == [Log(w, pt, kind, EmptyText) EXCEPT !.exc = TRUE, !.fired = TRUE]

\* except Exception: the handler goes on
Caught(w) == [w EXCEPT !.exc = FALSE]

----------------------------------------------------------------------------
(* Helper functions, src/src/ui.py 617-659. *)

\* a helper that puts the message at the head of the log
add_message_to_conversation_at_head(w, role, content, lang_code) ==
    LET message == [role |-> role, content |-> content,
                    lang |-> IF Truthy(lang_code) /\ role = "user"
                             THEN Get(lang_code) ELSE ""]
    IN  Log([w EXCEPT !.conversation = <<message>> \o @],
            "append", role, content)

add_message_to_conversation(w, role, content, lang_code) ==
    LET message == [role |-> role, content |-> content,
                    lang |-> IF Truthy(lang_code) /\ role = "user"
                             THEN Get(lang_code) ELSE ""]
    IN  Log([w EXCEPT !.conversation = Append(@, message)],
            "append", role, content)

\* (content[:50] + "...") if len(content) > 50 else (content or "Chat")
ChatTitle(content) ==
    IF content.len > 50 THEN [content EXCEPT !.len = 51]
    ELSE IF content.len = 0 THEN Text(<<"Chat">>, "", 4)
    ELSE content

\* backend chats_list(uid): the records of uid, as {id, title}
chats_list(db, uid) ==
    LET ids == {i \in 1..Len(db) : db[i].uid = uid}
        RECURSIVE upto(_)
        upto(n) == IF n = 0 THEN <<>>
                   ELSE IF n \in ids
                        THEN Append(upto(n - 1), [id |-> n, title |-> db[n].title])
                        ELSE upto(n - 1)
    IN  upto(Len(db))

\* message_insert outside a try block: its exception leaves the helper
message_insert_propagates(w, role, content) ==
    IF Raises(w, "message_insert", role)
    THEN Raise(w, "message_insert", "backend")
    ELSE Log(w, "message_insert", role, content)

\* message_insert(cid, role, content) inside the try of lines 627-640
message_insert(w, role, content) ==
    IF Raises(w, "message_insert", role)
    THEN Caught(Raise(w, "message_insert", "backend"))
    ELSE Log(w, "message_insert", role, content)

\* cid = chat_create(uid, title); current_chat_id = cid (lines 633-635)
chat_create(w, role, title) ==
    [Log(w, "chat_create", role, title) EXCEPT
        !.db_chats = Append(@, [uid |-> Get(w.supabase_session), title |-> title]),
        !.current_chat_id = Some(Len(w.db_chats) + 1)]

\* st.session_state.chat_list = chats_list(uid) (line 636)
reload_chat_list(w, role) ==
    [Log(w, "chats_list", role, EmptyText) EXCEPT
        !.chat_list = chats_list(w.db_chats, Get(w.supabase_session))]

\* the helper without the test of line 626: the message goes to the backend
_persist_message_to_db_unguarded(w, role, content) ==
    message_insert(w, role, content)

_persist_message_to_db(w, role, content) ==
    IF ~w.supabase_configured \/ ~Truthy(w.supabase_session) THEN w
    ELSE IF Truthy(w.current_chat_id) THEN message_insert(w, role, content)
    ELSE IF Raises(w, "chat_create", role)
    THEN Caught(Raise(w, "chat_create", "backend"))
    ELSE IF Raises(w, "chat_create_none", role)
    THEN [Log(w, "chat_create_none", role, ChatTitle(content)) EXCEPT !.fired = TRUE]
    ELSE IF Raises(w, "chats_list", role)
    THEN Caught(Raise(chat_create(w, role, ChatTitle(content)), "chats_list", "backend"))
    ELSE message_insert(reload_chat_list(chat_create(w, role, ChatTitle(content)), role),
                        role, content)

\* the join without the slice: every symptom of the session is written
JoinSymptoms_without_slice(symptoms) == symptoms

\* ", ".join(str(s) for s in symptoms[:20])
JoinSymptoms(symptoms) ==
    SubSeq(symptoms, 1, IF Len(symptoms) > 20 THEN 20 ELSE Len(symptoms))

\* lines 651-654
upsert_last_symptoms(w) ==
    IF w.extracted_symptoms = <<>> THEN w
    ELSE IF Raises(w, "upsert_symptoms", "memory")
    THEN Raise(w, "user_memory_upsert", "backend")
    ELSE [Log(w, "user_memory_upsert", "last_symptoms", EmptyText) EXCEPT
             !.db_memory[Get(w.supabase_session)].last_symptoms =
                 Some(JoinSymptoms(w.extracted_symptoms)),
             !.persistent_memory.last_symptoms = Some(JoinSymptoms(w.extracted_symptoms))]

\* lines 655-657
upsert_last_advice(w) ==
    IF w.exc \/ Truncate(w.last_advice_given, 800).len = 0 THEN w
    ELSE IF Raises(w, "upsert_advice", "memory")
    THEN Raise(w, "user_memory_upsert", "backend")
    ELSE [Log(w, "user_memory_upsert", "last_advice", Truncate(w.last_advice_given, 800))
             EXCEPT
             !.db_memory[Get(w.supabase_session)].last_advice =
                 Some(Truncate(w.last_advice_given, 800)),
             !.persistent_memory.last_advice = Some(Truncate(w.last_advice_given, 800))]

_save_health_context_to_memory(w) ==
    IF ~w.supabase_configured \/ ~Truthy(w.supabase_session) THEN w
    ELSE Caught(upsert_last_advice(upsert_last_symptoms(w)))


----------------------------------------------------------------------------
(* The collaborators, by their contracts. *)

\* HealBeeUtilities.translate_text(text, target_lang)
translate_text(t, target_lang) == [t EXCEPT !.lang = target_lang]

\* HealBeeUtilities.translate_text_to_english(text)
translate_text_to_english(t) == [t EXCEPT !.lang = "en-IN"]

\* f"{a}: {b}"
Format2(a, b) == Text(a.body \o <<":">> \o b.body, a.lang, a.len + 2 + b.len)

\* a symptom name as a text
SymText(name) == Text(<<name>>, "en-IN", 8)

\* the NLU results the engine returns in the model
Symptoms == {"fever", "headache"}
NLUResults ==
    [intent : {"symptom_query", "other"},
     is_emergency : BOOLEAN,
     symptoms : {<<>>, <<"fever">>, <<"fever", "headache">>}]

\* SymptomChecker(nlu_result): nq questions are prepared by
\* prepare_follow_up_questions, asked of them were returned so far
SymptomChecker(nlu_result, nq) ==
    [symptoms |-> nlu_result.symptoms, nq |-> nq, asked |-> 0,
     prepared |-> FALSE, recorded |-> 0]

prepare_follow_up_questions(sc) == [sc EXCEPT !.prepared = TRUE]

QuestionNames == <<"q1", "q2", "q3", "q4">>

\* the k-th question of a checker instance
QuestionOf(sc, k) ==
    [question |-> Text(<<QuestionNames[k]>>, "en-IN", 40),
     symptom_name |-> IF sc.symptoms = <<>> THEN "general"
                      ELSE sc.symptoms[((k - 1) % Len(sc.symptoms)) + 1]]

\* get_next_question(): the value returned, and the instance afterwards
NextQuestion(sc) ==
    IF sc.prepared /\ sc.asked < sc.nq THEN Some(QuestionOf(sc, sc.asked + 1)) ELSE None
AfterNextQuestion(sc) ==
    IF sc.prepared /\ sc.asked < sc.nq THEN [sc EXCEPT !.asked = @ + 1] ELSE sc

\* record_answer(symptom_name, question, answer): one more answer is held
record_answer(sc, symptom_name, question, answer) == [sc EXCEPT !.recorded = @ + 1]

\* append s unless it is empty
AppendNew_without_membership_test(seq, s) ==
    IF s /= "" THEN Append(seq, s) ELSE seq

\* append s unless it is empty or already there
AppendNew(seq, s) ==
    IF s /= "" /\ ~(\E i \in 1..Len(seq) : seq[i] = s) THEN Append(seq, s) ELSE seq

RECURSIVE AppendAllNew(_, _)
AppendAllNew(seq, names) ==
    IF names = <<>> THEN seq
    ELSE AppendAllNew(AppendNew(seq, Head(names)), Tail(names))

\* sc.collected_symptom_details.keys(): the symptoms the instance was seeded with
collected_symptom_details(sc) == sc.symptoms

\* generate_preliminary_assessment(): the payload
Assessment == [assessment_summary |-> Text(<<"summary">>, "en-IN", 120)]

\* HealBeeResponseGenerator.generate_response(...)
BotResponse == Text(<<"response">>, "en-IN", 300)
\* a response longer than the 800 characters lines 1024 and 650 keep
LongResponse == Text(<<"long-response">>, "en-IN", 1200)
\* what the generator returns for the NLU result of the run: the long
\* response for a message that names more symptoms than line 652 keeps
generate_response(nlu) ==
    IF Len(nlu.symptoms) > 20 THEN LongResponse ELSE BotResponse

\* the system messages of the handlers
ErrorProcessing == Text(<<"error-processing">>, "en-IN", 110)
ErrorSTTEmpty == Text(<<"stt-empty">>, "en-IN", 70)
ErrorSTT == Text(<<"stt-error">>, "en-IN", 90)

----------------------------------------------------------------------------
(* The turn handlers, src/src/ui.py 964-1157. *)

\* the session is closed: active false, instance and pending question None
ClearSymptomSession(w) ==
    [w EXCEPT !.symptom_checker_active = FALSE,
              !.symptom_checker_instance = None,
              !.pending_symptom_question_data = None]

\* the structured rendering of an assessment (lines 1110-1137)
RenderAssessment(assessment, user_lang) ==
    Text(<<"assessment">> \o assessment.assessment_summary.body, user_lang, 600)

\* json.dumps(assessment, indent=2) in the fallback message (line 1149)
RawAssessment(assessment) ==
    Text(<<"raw">> \o assessment.assessment_summary.body, "en-IN", 200)

\* str(json_e) in the second fallback (line 1152)
SerializeFailure == Text(<<"not-serializable">>, "en-IN", 60)

\* f"Could not format assessment. Raw data:\n```json\n{raw_assessment_json}\n```"
RawAssessmentMessage(assessment) ==
    Text(<<"could-not-format">> \o RawAssessment(assessment).body, "en-IN",
         RawAssessment(assessment).len + 54)

\* f"Could not format or serialize assessment: {json_e}"
SerializeFailureMessage ==
    Text(<<"could-not-serialize">> \o SerializeFailure.body, "en-IN",
         SerializeFailure.len + 43)

\* generate_and_display_assessment without lines 1154-1156
generate_and_display_assessment_keeps_session(w) ==
    IF Truthy(w.symptom_checker_instance)
    THEN [add_message_to_conversation(
              Log(w, "generate_and_display_assessment", "", EmptyText), "assistant",
              RenderAssessment(Assessment, w.current_language_code), None)
             EXCEPT !.voice_input_stage = None]
    ELSE [Log(w, "generate_and_display_assessment", "", EmptyText)
             EXCEPT !.voice_input_stage = None]

\* lines 1105-1108: the collected symptoms join extracted_symptoms
collect_symptoms(w) ==
    [w EXCEPT !.extracted_symptoms =
        AppendAllNew(@, collected_symptom_details(Get(w.symptom_checker_instance)))]

\* line 1144: last_advice_given = (summary or assessment_str[:800])[:800]
remember_assessment(w, assessment, assessment_str) ==
    [w EXCEPT !.last_advice_given =
        Truncate(IF assessment.assessment_summary.len > 0
                 THEN assessment.assessment_summary
                 ELSE Truncate(assessment_str, 800), 800)]

\* lines 1110-1144: the rendering succeeds
render_assessment(w) ==
    remember_assessment(
        _save_health_context_to_memory(
            _persist_message_to_db(
                add_message_to_conversation(
                    w, "assistant",
                    RenderAssessment(Assessment, w.current_language_code), None),
                "assistant", RenderAssessment(Assessment, w.current_language_code))),
        Assessment, RenderAssessment(Assessment, w.current_language_code))

\* lines 1145-1150: the rendering raised, the raw payload is emitted
raw_fallback(w) ==
    _persist_message_to_db(
        add_message_to_conversation(Caught(Raise(w, "translate_text", "rendering")),
                                    "assistant", RawAssessmentMessage(Assessment), None),
        "assistant", Truncate(RawAssessment(Assessment), 2000))

\* lines 1151-1153: json.dumps raised as well
serialize_fallback(w) ==
    _persist_message_to_db(
        add_message_to_conversation(
            Caught(Raise(Caught(Raise(w, "translate_text", "rendering")),
                         "json.dumps", "rendering")),
            "assistant", SerializeFailureMessage, None),
        "assistant", Truncate(SerializeFailure, 500))

\* lines 1109-1144 without the except blocks of lines 1145-1153
display_assessment_without_fallback(w) ==
    IF Raises(w, "translate", "") THEN Raise(w, "translate_text", "rendering")
    ELSE IF Raises(w, "render_json", "") THEN Raise(w, "json.dumps", "rendering")
    ELSE render_assessment(w)

\* lines 1109-1153
display_assessment(w) ==
    IF Raises(w, "translate", "") THEN raw_fallback(w)
    ELSE IF Raises(w, "render_json", "") THEN serialize_fallback(w)
    ELSE render_assessment(w)

generate_and_display_assessment(w) ==
    IF Truthy(w.symptom_checker_instance)
    THEN IF Raises(w, "assessment", "")
         THEN Raise(Log(w, "generate_and_display_assessment", "", EmptyText),
                    "generate_preliminary_assessment", "routing")
         ELSE [ClearSymptomSession(
                   display_assessment(
                       collect_symptoms(
                           Log(w, "generate_and_display_assessment", "", EmptyText))))
                  EXCEPT !.voice_input_stage = None]
    ELSE [Log(w, "generate_and_display_assessment", "", EmptyText)
             EXCEPT !.voice_input_stage = None]

\* the question message: f"{question}: {symptom}" at line 1001,
\* f"{symptom}: {question}" at line 1061
QuestionMessage(w, first) ==
    LET user_lang == w.current_language_code
        q == Get(w.pending_symptom_question_data)
        question_to_ask_translated == translate_text(q.question, user_lang)
        symptom_context_translated == translate_text(SymText(q.symptom_name), user_lang)
    IN  IF first
        THEN Format2(question_to_ask_translated, symptom_context_translated)
        ELSE Format2(symptom_context_translated, question_to_ask_translated)

\* lines 996-1001 without the else branch of lines 1003-1004
AskOrAssess_never_assesses(w, first) ==
    IF Truthy(w.pending_symptom_question_data)
    THEN add_message_to_conversation(Log(w, "ask", "", QuestionMessage(w, first)),
                                     "assistant", QuestionMessage(w, first), None)
    ELSE w

\* lines 996-1004 and 1056-1064: ask the pending question or assess
\* (first is TRUE on the new-query path)
AskOrAssess(w, first) ==
    IF Truthy(w.pending_symptom_question_data)
    THEN IF Raises(w, "translate", "")
         THEN Raise(w, "translate_text", "routing")
         ELSE _persist_message_to_db(
                  add_message_to_conversation(
                      Log(w, "ask", "", QuestionMessage(w, first)),
                      "assistant", QuestionMessage(w, first), None),
                  "assistant", QuestionMessage(w, first))
    ELSE generate_and_display_assessment(w)

\* the statements after get_next_question are skipped when it raised
AskUnlessRaised(w, first) == IF w.exc THEN w ELSE AskOrAssess(w, first)

\* st.session_state.pending_symptom_question_data = instance.get_next_question()
AssignNextQuestion(w) ==
    LET sc == Get(w.symptom_checker_instance)
    IN  IF Raises(w, "get_next", "")
        THEN Raise(w, "get_next_question", "routing")
        ELSE [Log(w, IF Truthy(NextQuestion(sc)) THEN "get_next_question"
                     ELSE "no_next_question", "", EmptyText) EXCEPT
                 !.pending_symptom_question_data = NextQuestion(sc),
                 !.symptom_checker_instance = Some(AfterNextQuestion(sc))]

\* SARVAM_API_KEY is set whenever a handler can run: main_ui stops at
\* line 718 without it
SARVAM_API_KEY == TRUE

\* the session context of a direct response (lines 1006-1013)
SessionContext(w) ==
    [extracted_symptoms |-> w.extracted_symptoms,
     follow_up_answers |-> w.follow_up_answers,
     last_advice_given |-> Truncate(w.last_advice_given, 800),
     user_profile |-> w.user_profile,
     user_memory |-> w.persistent_memory,
     past_messages |-> <<>>]

\* lines 984-989: the NLU result, its symptoms join extracted_symptoms
understand(w, user_query_text) ==
    [Log(w, "process_transcription", "", user_query_text) EXCEPT
        !.extracted_symptoms = AppendAllNew(@, w.env.nlu.symptoms)]

\* line 992
activate(w) == [w EXCEPT !.symptom_checker_active = TRUE]

\* line 993
construct_checker(w) ==
    [Log(w, "SymptomChecker", "", EmptyText) EXCEPT
        !.symptom_checker_instance = Some(SymptomChecker(w.env.nlu, w.env.nq))]

\* line 994
prepare_questions(w) ==
    [Log(w, "prepare_follow_up_questions", "", EmptyText) EXCEPT
        !.symptom_checker_instance =
            Some(prepare_follow_up_questions(Get(w.symptom_checker_instance)))]

\* lines 992-1004: a symptom session is started
start_symptom_session(w) ==
    IF Raises(w, "checker_init", "")
    THEN Raise(activate(w), "SymptomChecker", "routing")
    ELSE IF Raises(w, "prepare", "")
    THEN Raise(construct_checker(activate(w)), "prepare_follow_up_questions", "routing")
    ELSE AskUnlessRaised(
             AssignNextQuestion(prepare_questions(construct_checker(activate(w)))), TRUE)

\* lines 1006-1019: the session context, with the messages of other chats
assemble_context(w) ==
    [Log(w, "session_context", "", SessionContext(w).last_advice_given) EXCEPT
        !.context = Some(SessionContext(w))]

\* get_recent_messages_from_other_chats(uid, current_chat_id, limit=8)
RecentMessages == <<"m1">>

\* line 1017: the messages fetched join the context
fetch_past_messages(w) ==
    [Log(w, "get_recent_messages_from_other_chats", "", EmptyText) EXCEPT
        !.context = Some([Get(w.context) EXCEPT !.past_messages = RecentMessages])]

\* lines 1014-1017 outside a try block: the exception of the fetch leaves
load_session_context_propagates(w) ==
    IF w.supabase_configured /\ Truthy(w.supabase_session) /\ Truthy(w.current_chat_id)
    THEN IF Raises(w, "past_messages", "")
         THEN Raise(assemble_context(w), "get_recent_messages_from_other_chats", "backend")
         ELSE fetch_past_messages(assemble_context(w))
    ELSE assemble_context(w)

load_session_context(w) ==
    IF w.supabase_configured /\ Truthy(w.supabase_session) /\ Truthy(w.current_chat_id)
    THEN IF Raises(w, "past_messages", "")
         THEN Caught(Raise(assemble_context(w),
                           "get_recent_messages_from_other_chats", "backend"))
         ELSE fetch_past_messages(assemble_context(w))
    ELSE assemble_context(w)

\* lines 1022-1025, after the response is translated
show_response(w, translated_bot_response) ==
    [_persist_message_to_db(
         add_message_to_conversation(w, "assistant", translated_bot_response, None),
         "assistant", translated_bot_response)
        EXCEPT !.last_advice_given = Truncate(translated_bot_response, 800),
               !.symptom_checker_active = FALSE]

\* lines 1020-1027: the direct response
respond(w, user_query_text) ==
    IF w.exc THEN w
    ELSE IF Raises(w, "generate_response", "") THEN Raise(w, "generate_response", "routing")
    ELSE IF Raises(w, "translate", "")
    THEN Raise(Log(w, "generate_response", "", user_query_text), "translate_text", "routing")
    ELSE _save_health_context_to_memory(
             show_response(Log(w, "generate_response", "", user_query_text),
                           translate_text(generate_response(w.env.nlu), w.current_language_code)))

\* the try block with the test of line 991 reduced to the intent
process_try_ignores_emergency(w, user_query_text) ==
    IF Raises(w, "nlu", "") THEN Raise(w, "process_transcription", "routing")
    ELSE IF w.env.nlu.intent = "symptom_query"
    THEN start_symptom_session(understand(w, user_query_text))
    ELSE respond(load_session_context(understand(w, user_query_text)), user_query_text)

\* the try block, lines 979-1027
process_try(w, user_query_text) ==
    IF Raises(w, "nlu", "") THEN Raise(w, "process_transcription", "routing")
    ELSE IF w.env.nlu.intent = "symptom_query" /\ ~w.env.nlu.is_emergency
    THEN start_symptom_session(understand(w, user_query_text))
    ELSE respond(load_session_context(understand(w, user_query_text)), user_query_text)

\* an except block that leaves the pending question
process_except_finally_keeps_pending(w) ==
    [(IF w.exc
      THEN [add_message_to_conversation(Caught(w), "system", ErrorProcessing, None)
               EXCEPT !.symptom_checker_active = FALSE,
                      !.symptom_checker_instance = None]
      ELSE w) EXCEPT !.voice_input_stage = None]

\* an except block that leaves symptom_checker_active as the try block set it
process_except_finally_keeps_active(w) ==
    [(IF w.exc
      THEN [add_message_to_conversation(Caught(w), "system", ErrorProcessing, None)
               EXCEPT !.symptom_checker_instance = None,
                      !.pending_symptom_question_data = None]
      ELSE w) EXCEPT !.voice_input_stage = None]

\* except Exception, lines 1028-1033, and finally, lines 1034-1035
process_except_finally(w) ==
    [(IF w.exc
      THEN ClearSymptomSession(
               add_message_to_conversation(Caught(w), "system", ErrorProcessing, None))
      ELSE w) EXCEPT !.voice_input_stage = None]

process_and_display_response(w, user_query_text, lang_code) ==
    IF ~SARVAM_API_KEY
    THEN [add_message_to_conversation(
              Log(w, "process_and_display_response", "", user_query_text),
              "system", ErrorProcessing, None)
             EXCEPT !.voice_input_stage = None]
    ELSE process_except_finally(
             process_try(Log(w, "process_and_display_response", "", user_query_text),
                         user_query_text))

\* lines 1042-1043
add_answer_message(w, answer_text) ==
    _persist_message_to_db(
        add_message_to_conversation(w, "user", answer_text,
                                    Some(LangPrefix(w.current_language_code))),
        "user", answer_text)

\* lines 1045-1052
note_answer(w, answer_text) ==
    [w EXCEPT !.follow_up_answers =
        Append(@, [symptom_name |-> Get(w.pending_symptom_question_data).symptom_name,
                   question |-> Get(w.pending_symptom_question_data).question,
                   answer |-> answer_text])]

\* line 1054
record(w, answer_text) ==
    [Log(w, "record_answer", "", answer_text) EXCEPT
        !.symptom_checker_instance =
            Some(record_answer(Get(w.symptom_checker_instance),
                               Get(w.pending_symptom_question_data).symptom_name,
                               Get(w.pending_symptom_question_data).question,
                               answer_text))]

\* lines 1053-1064
answer_and_continue(w, answer_text) ==
    IF Raises(w, "record_answer", "") THEN Raise(w, "record_answer", "routing")
    ELSE AskUnlessRaised(AssignNextQuestion(record(w, answer_text)), FALSE)

\* line 1068 is not reached when an exception leaves the body
reset_voice_stage(w) == IF w.exc THEN w ELSE [w EXCEPT !.voice_input_stage = None]

handle_follow_up_answer(w, answer_text) ==
    reset_voice_stage(
        IF Truthy(w.symptom_checker_instance) /\ Truthy(w.pending_symptom_question_data)
        THEN answer_and_continue(
                 note_answer(
                     add_answer_message(Log(w, "handle_follow_up_answer", "", answer_text),
                                        answer_text),
                     answer_text),
                 answer_text)
        ELSE [Log(w, "handle_follow_up_answer", "", answer_text)
                 EXCEPT !.symptom_checker_active = FALSE])

\* the handler was entered with a non-empty input
Submitted(w, user_input) ==
    Log(Log(w, "handle_text_submission", "", user_input), "submission", "", user_input)

\* lines 1088-1091: an active session without a pending question is reset
reset_stale_session_skipped(w) == w

reset_stale_session(w) ==
    IF w.symptom_checker_active
    THEN ClearSymptomSession(Log(w, "reset_stale_session", "", EmptyText))
    ELSE w

\* handle_text_submission without the branch of lines 1080-1083
handle_text_submission_always_new_query(w, text_query_input_area) ==
    IF strip(text_query_input_area).len = 0 THEN w
    ELSE process_and_display_response(
             add_message_to_conversation(
                 Submitted(w, strip(text_query_input_area)), "user",
                 strip(text_query_input_area),
                 Some(LangPrefix(w.current_language_code))),
             strip(text_query_input_area), w.current_language_code)

\* handle_text_submission that appends the user message before it branches,
\* as the comment of line 1078 says, while handle_follow_up_answer appends too
handle_text_submission_appends_first(w, text_query_input_area) ==
    IF strip(text_query_input_area).len = 0 THEN w
    ELSE IF w.symptom_checker_active /\ Truthy(w.pending_symptom_question_data)
    THEN handle_follow_up_answer(
             add_message_to_conversation(
                 Submitted(w, strip(text_query_input_area)), "user",
                 strip(text_query_input_area),
                 Some(LangPrefix(w.current_language_code))),
             strip(text_query_input_area))
    ELSE process_and_display_response(
             add_message_to_conversation(
                 Submitted(w, strip(text_query_input_area)), "user",
                 strip(text_query_input_area),
                 Some(LangPrefix(w.current_language_code))),
             strip(text_query_input_area), w.current_language_code)

\* handle_text_submission that appends the input to the log before the test
\* of line 1075
handle_text_submission_appends_blank(w, text_query_input_area) ==
    IF strip(text_query_input_area).len = 0
    THEN add_message_to_conversation(w, "user", strip(text_query_input_area),
                                     Some(LangPrefix(w.current_language_code)))
    ELSE IF w.symptom_checker_active /\ Truthy(w.pending_symptom_question_data)
    THEN handle_follow_up_answer(Submitted(w, strip(text_query_input_area)),
                                 strip(text_query_input_area))
    ELSE process_and_display_response(
             reset_stale_session(
                 _persist_message_to_db(
                     add_message_to_conversation(
                         Submitted(w, strip(text_query_input_area)), "user",
                         strip(text_query_input_area),
                         Some(LangPrefix(w.current_language_code))),
                     "user", strip(text_query_input_area))),
             strip(text_query_input_area), w.current_language_code)

handle_text_submission(w, text_query_input_area) ==
    IF strip(text_query_input_area).len = 0 THEN w
    ELSE IF w.symptom_checker_active /\ Truthy(w.pending_symptom_question_data)
    THEN handle_follow_up_answer(Submitted(w, strip(text_query_input_area)),
                                 strip(text_query_input_area))
    ELSE process_and_display_response(
             reset_stale_session(
                 _persist_message_to_db(
                     add_message_to_conversation(
                         Submitted(w, strip(text_query_input_area)), "user",
                         strip(text_query_input_area),
                         Some(LangPrefix(w.current_language_code))),
                     "user", strip(text_query_input_area))),
             strip(text_query_input_area), w.current_language_code)

----------------------------------------------------------------------------
(* The voice pipeline of the script body, src/src/ui.py 1160-1206. *)

\* the recordings and the cleaned audio of the model
AudioBytes == {"wav1"}
Cleaned(bytes) == [samples |-> bytes, sample_rate |-> 48000]

\* the transcriptions the utility returns
Transcriptions == {EmptyText, Text(<<" ">>, "", 1), Text(<<"hello">>, "", 5)}

\* util.transcribe_audio returned (lines 1182-1186)
Heard(w) ==
    Log(w, IF strip(w.env.stt.transcription).len > 0
           THEN "transcribe_audio" ELSE "transcribed_empty",
        "", w.env.stt.transcription)

\* stt_result.get("transcription"), in the language the utility detected
Spoken(w) == [w.env.stt.transcription EXCEPT !.lang = w.env.stt.language_detected]

\* the tests of lines 1187-1188 with a translation to English whatever the
\* language of the chat
stt_translation_to_english(w) ==
    IF w.current_language_code /= w.env.stt.language_detected
    THEN "translate_text_to_english"
    ELSE ""

\* the tests of lines 1187-1188: the translator call the transcription takes
stt_translation(w) ==
    IF w.current_language_code /= w.env.stt.language_detected
    THEN IF w.current_language_code = "en-IN"
         THEN "translate_text_to_english"
         ELSE "translate_text"
    ELSE ""

\* lines 1186-1190: the transcription in the language of the chat
TranscribedText(w) ==
    IF stt_translation(w) = "translate_text_to_english"
    THEN translate_text_to_english(Spoken(w))
    ELSE IF stt_translation(w) = "translate_text"
    THEN translate_text(Spoken(w), w.current_language_code)
    ELSE Spoken(w)

\* lines 1182-1190: transcribed and, where the languages differ, translated
Normalised(w) ==
    IF stt_translation(w) = "" THEN Heard(w)
    ELSE Log(Heard(w), stt_translation(w), "stt", TranscribedText(w))

\* except Exception as e, lines 1197-1199
stt_failed(w) == add_message_to_conversation(Caught(w), "system", ErrorSTT, None)
stt_except(w) == IF w.exc THEN stt_failed(w) ELSE w

\* lines 1192-1194: the transcription is dispatched
dispatch_transcription(w, transcribed_text, lang_for_stt) ==
    process_and_display_response(
        _persist_message_to_db(
            add_message_to_conversation(
                Log(w, "submission", "", transcribed_text), "user", transcribed_text,
                Some(LangPrefix(lang_for_stt))),
            "user", transcribed_text),
        transcribed_text, lang_for_stt)

\* lines 1180-1199 without the test of line 1191
processing_stt_dispatches_empty(w) ==
    process_and_display_response(
        add_message_to_conversation(Heard(w), "user", w.env.stt.transcription,
                                    Some(LangPrefix(w.current_language_code))),
        w.env.stt.transcription, w.current_language_code)

\* lines 1180-1199: transcribe, normalise the language, dispatch
processing_stt(w) ==
    IF Raises(w, "stt", "") THEN stt_failed(Raise(w, "transcribe_audio", "voice"))
    ELSE IF w.current_language_code /= w.env.stt.language_detected
            /\ Raises(w, "stt_translate", "")
    THEN stt_failed(Raise(Heard(w), "translate_text", "voice"))
    ELSE IF TranscribedText(w).len > 0 /\ strip(TranscribedText(w)).len > 0
    THEN stt_except(dispatch_transcription(Normalised(w), TranscribedText(w),
                                           w.current_language_code))
    ELSE add_message_to_conversation(Normalised(w), "system", ErrorSTTEmpty, None)

\* lines 1160-1174: the captured audio is decoded and cleaned
capture(w) ==
    IF ~Truthy(w.captured_audio_data) THEN w
    ELSE IF Raises(w, "decode", "") THEN Raise(w, "sf.read", "voice")
    ELSE IF Raises(w, "clean", "") THEN Raise(w, "get_cleaned_audio", "voice")
    ELSE [Log(w, "get_cleaned_audio", "", EmptyText) EXCEPT
             !.cleaned_audio_data = Some(Cleaned(Get(w.captured_audio_data))),
             !.voice_input_stage = Some("processing_stt")]

\* lines 1200-1202
teardown(w) ==
    [w EXCEPT !.captured_audio_data = None,
              !.cleaned_audio_data = None,
              !.voice_input_stage = None]

\* lines 1176-1206; not reached when an exception left the capture block
transcribe_stage(w) ==
    IF w.exc \/ w.voice_input_stage /= Some("processing_stt") THEN w
    ELSE IF Truthy(w.cleaned_audio_data) THEN teardown(processing_stt(w))
    ELSE [w EXCEPT !.voice_input_stage = None]

\* one run of the script body over the voice blocks
voice_pipeline(w) == transcribe_stage(capture(w))

----------------------------------------------------------------------------
(* The head of the script body, src/src/ui.py 764-778: with a session, the
   chat list, the memory cache and the profile are reloaded from the backend
   on every run. *)

script_preamble(w) ==
    IF w.supabase_configured /\ Truthy(w.supabase_session)
    THEN LET uid == Get(w.supabase_session)
         IN  [w EXCEPT !.chat_list = chats_list(w.db_chats, uid),
                       !.persistent_memory = w.db_memory[uid],
                       !.user_profile = w.db_profile[uid]]
    ELSE w

----------------------------------------------------------------------------
(* What the environment of a handler run can do. *)

Users == {"u1"}

\* the typed inputs of the model
Inputs == {EmptyText, Text(<<" ">>, "", 1), Text(<<"hello">>, "", 5)}

\* the NLU results of a run and, with each, the number of questions a checker
\* built from it prepares
NLU(intent, is_emergency, symptoms) ==
    [intent |-> intent, is_emergency |-> is_emergency, symptoms |-> symptoms]
\* a message that names more symptoms than symptoms[:20] of line 652 keeps
SymptomsCap == 20
ManySymptoms ==
    <<"fever", "headache", "s03", "s04", "s05", "s06", "s07", "s08", "s09", "s10", "s11",
      "s12", "s13", "s14", "s15", "s16", "s17", "s18", "s19", "s20", "s21">>
EngineCases ==
    {[nlu |-> NLU("symptom_query", FALSE,
                  IF nq % 2 = 1 THEN <<"fever", "headache">> ELSE <<"fever">>),
      nq |-> nq] : nq \in 0..MaxQuestions}
    \cup {[nlu |-> NLU("symptom_query", TRUE, <<"fever">>), nq |-> 0],
          [nlu |-> NLU("other", FALSE, <<>>), nq |-> 0],
          [nlu |-> NLU("other", FALSE, ManySymptoms), nq |-> 0]}
AnyCase == CHOOSE c \in EngineCases : TRUE

\* the cases explored with a signed-in session: a session with one question,
\* a session with none, a direct response
BackendCases ==
    {[nlu |-> NLU("symptom_query", FALSE, <<"fever">>), nq |-> 1],
     [nlu |-> NLU("symptom_query", FALSE, <<"fever">>), nq |-> 0],
     [nlu |-> NLU("other", FALSE, <<>>), nq |-> 0]}
AnyOf(cases) == CHOOSE c \in cases : TRUE

\* the collaborator calls that can raise in a turn
TurnFaults ==
    {Fault(pt, "") : pt \in {"nlu", "checker_init", "prepare", "get_next", "translate",
                             "past_messages", "generate_response", "record_answer",
                             "assessment", "render_json"}}
VoiceFaults ==
    {Fault(pt, "") : pt \in {"decode", "clean", "stt", "stt_translate"}}
BackendFaults ==
    {Fault(pt, who) : pt \in {"chat_create", "chat_create_none", "chats_list", "message_insert"},
                      who \in {"user", "assistant"}}
    \cup {Fault("upsert_symptoms", "memory"), Fault("upsert_advice", "memory")}

LoggedIn == supabase_configured /\ Truthy(supabase_session)

\* one call raises in a run, or none: a collaborator of the turn without a
\* session, a call to the backend or a translation with one
FaultsOf(base) ==
    {NoFault} \cup (IF LoggedIn
                    THEN BackendFaults
                         \cup {Fault(pt, "") : pt \in {"past_messages", "translate",
                                                      "render_json"}}
                    ELSE base \ {Fault("past_messages", "")})

NoSTT == [transcription |-> EmptyText, language_detected |-> "en-IN"]
Env(fault, c, stt) == [fault |-> fault, nlu |-> c.nlu, nq |-> c.nq, stt |-> stt]

\* the handlers of a turn
Handlers == {"handle_text_submission", "handle_follow_up_answer",
             "process_and_display_response", "generate_and_display_assessment"}

RECURSIVE Names(_)
Names(trace) == IF trace = <<>> THEN <<>> ELSE <<Head(trace).ev>> \o Names(Tail(trace))
RECURSIVE Roles(_)
Roles(trace) == IF trace = <<>> THEN <<>> ELSE <<Head(trace).role>> \o Roles(Tail(trace))
RECURSIVE Contents(_)
Contents(seq) == IF seq = <<>> THEN <<>> ELSE <<Head(seq).content>> \o Contents(Tail(seq))
\* an event a comes before the first event b
Before(names, a, b) ==
    \E j \in 1..Len(names) :
        /\ names[j] = b
        /\ \A k \in 1..(j - 1) : names[k] /= b
        /\ \E i \in 1..(j - 1) : names[i] = a
IsHandler(name) == name \in Handlers
IsAppend(e) == e.ev = "append"
IsRaise(e) == e.role \in FailureKinds
Happened(trace, name) == \E i \in 1..Len(trace) : trace[i].ev = name /\ ~IsRaise(trace[i])
Times(seq, x) == Cardinality({i \in 1..Len(seq) : seq[i] = x})

\* the calls the properties below ask about
Notable == {"SymptomChecker", "get_next_question", "no_next_question", "ask",
            "record_answer", "process_transcription", "generate_response",
            "transcribe_audio", "transcribed_empty", "leftover_audio"}

\* the calls to the persistence backend
BackendCalls == {"chat_create", "chat_create_none", "chats_list", "message_insert",
                 "user_memory_upsert", "get_recent_messages_from_other_chats"}
IsBackendCall(e) == e.ev \in BackendCalls
IsSubmission(e) == e.ev = "submission"
IsSttTranslation(e) == e.role = "stt"
RECURSIVE Calls(_)
Calls(trace) ==
    IF trace = <<>> THEN <<>>
    ELSE <<[call |-> Head(trace).ev, role |-> Head(trace).role]>> \o Calls(Tail(trace))

\* every persistence call of a message comes after an append of that message
\* to the in-memory log
AppendedBeforePersisted(trace) ==
    \A i \in 1..Len(trace) :
        trace[i].ev \in {"chat_create", "chat_create_none", "chats_list", "message_insert"} =>
            \E j \in 1..(i - 1) :
                /\ trace[j].ev = "append"
                /\ IsRaise(trace[i]) \/ trace[j].role = trace[i].role

\* the append last before event i of the trace, 0 when there is none
LastAppendBefore(trace, i) ==
    IF \E j \in 1..(i - 1) : trace[j].ev = "append"
    THEN CHOOSE j \in 1..(i - 1) :
            /\ trace[j].ev = "append"
            /\ \A k \in (j + 1)..(i - 1) : trace[k].ev /= "append"
    ELSE 0
Mirrored(trace) ==
    \A i \in 1..Len(trace) :
        (trace[i].ev = "message_insert" /\ ~IsRaise(trace[i])) =>
            /\ LastAppendBefore(trace, i) > 0
            /\ trace[LastAppendBefore(trace, i)].role = trace[i].role
            /\ trace[LastAppendBefore(trace, i)].content = trace[i].content

\* what a handler run did, as far as the properties below look at it
Summary(w, op) ==
    LET raises == SelectSeq(w.trace, IsRaise)
        created == Happened(w.trace, "SymptomChecker")
        fresh == created \/ ~Truthy(symptom_checker_instance)
    IN
    [op |-> op,
     \* the run accepted a submission: a non-empty text reached the routing
     submitted |-> Happened(w.trace, "submission"),
     \* a question was pending in an active session when the run started
     pending_at_start |-> symptom_checker_active /\ Truthy(pending_symptom_question_data),
     \* the checker instance when the run started
     checker_at_start |-> symptom_checker_instance,
     \* the handlers entered, in order
     path |-> SelectSeq(Names(w.trace), IsHandler),
     \* the calls that returned
     did |-> {n \in Notable : Happened(w.trace, n)},
     \* the roles of the messages appended, in order
     appended |-> Roles(SelectSeq(w.trace, IsAppend)),
     \* the follow_up_answers entries added
     answers_added |-> Len(w.follow_up_answers) - Len(follow_up_answers),
     \* the kind of the first failure of the run, "" without one
     failure |-> IF raises = <<>> THEN "" ELSE raises[1].role,
     \* the exception left the handler
     raised |-> w.exc,
     \* the question messages appended for the checker instance of the session
     questions |-> (IF fresh THEN 0 ELSE turn.questions)
                   + Times(Names(w.trace), "ask"),
     \* no call has failed since that instance was built
     clean |-> (fresh \/ turn.clean) /\ raises = <<>>,
     \* the text the run accepted, empty without a submission
     input |-> IF SelectSeq(w.trace, IsSubmission) = <<>> THEN EmptyText
               ELSE SelectSeq(w.trace, IsSubmission)[1].content,
     \* the NLU result of the run, None when the engine was not reached
     nlu |-> IF Happened(w.trace, "process_transcription") THEN Some(w.env.nlu) ELSE None,
     \* the calls to the persistence backend, in order (a call that raised
     \* has the role "backend")
     backend |-> Calls(SelectSeq(w.trace, IsBackendCall)),
     \* the local appends came before the persistence calls
     append_first |-> AppendedBeforePersisted(w.trace),
     \* the sizes of the session context handed to the response generator
     context |-> IF Truthy(w.context)
                 THEN Some([extracted_symptoms |-> Len(Get(w.context).extracted_symptoms),
                            follow_up_answers |-> Len(Get(w.context).follow_up_answers),
                            last_advice_given |-> Get(w.context).last_advice_given.len,
                            past_messages |-> Len(Get(w.context).past_messages)])
                 ELSE None,
     \* a session was signed in when the run started
     logged_in |-> supabase_configured /\ Truthy(supabase_session),
     \* the log of the start of the run is the head of the log the run leaves,
     \* and what follows it are the messages the run appended, in order
     log_kept |-> /\ Len(w.conversation)
                       = Len(conversation) + Len(SelectSeq(w.trace, IsAppend))
                  /\ SubSeq(w.conversation, 1, Len(conversation)) = conversation
                  /\ Contents(SubSeq(w.conversation, Len(conversation) + 1,
                                      Len(w.conversation)))
                       = Contents(SelectSeq(w.trace, IsAppend)),
     \* the session was active without a pending question when the run started
     stale_at_start |-> symptom_checker_active /\ ~Truthy(pending_symptom_question_data),
     \* the session was reset before the NLU engine was called
     reset_before_nlu |-> Before(Names(w.trace), "reset_stale_session",
                                 "process_transcription"),
     \* the language the transcription utility detected, "" when it was not
     \* called or raised
     detected |-> IF Happened(w.trace, "transcribe_audio")
                     \/ Happened(w.trace, "transcribed_empty")
                  THEN w.env.stt.language_detected ELSE "",
     \* the translator calls made on the transcription, in order
     stt_translations |-> Names(SelectSeq(w.trace, IsSttTranslation)),
     \* every message inserted in the backend has the role and the content of
     \* the message appended to the log last before it
     mirrored |-> Mirrored(w.trace),
     \* the symptoms of the start of the run are the head of the list the run
     \* leaves
     symptoms_kept |-> /\ Len(w.extracted_symptoms) >= Len(extracted_symptoms)
                       /\ SubSeq(w.extracted_symptoms, 1, Len(extracted_symptoms))
                            = extracted_symptoms]

\* the state a handler run leaves, and what the run did
Commit(w, op) ==
    /\ conversation' = w.conversation
    /\ current_language_code' = w.current_language_code
    /\ symptom_checker_active' = w.symptom_checker_active
    /\ symptom_checker_instance' = w.symptom_checker_instance
    /\ pending_symptom_question_data' = w.pending_symptom_question_data
    /\ voice_input_stage' = w.voice_input_stage
    /\ captured_audio_data' = w.captured_audio_data
    /\ cleaned_audio_data' = w.cleaned_audio_data
    /\ extracted_symptoms' = w.extracted_symptoms
    /\ follow_up_answers' = w.follow_up_answers
    /\ last_advice_given' = w.last_advice_given
    /\ user_profile' = w.user_profile
    /\ supabase_configured' = w.supabase_configured
    /\ supabase_session' = w.supabase_session
    /\ chat_list' = w.chat_list
    /\ current_chat_id' = w.current_chat_id
    /\ persistent_memory' = w.persistent_memory
    /\ db_chats' = w.db_chats
    /\ db_memory' = w.db_memory
    /\ db_profile' = w.db_profile
    /\ turn' = Summary(w, op)
    \* the recorder returns its audio once, when the capture stops
    /\ recording' = (recording /\ op /= "voice")

NoMemory == [last_symptoms |-> None, last_advice |-> None]
Quiet == World(Env(NoFault, AnyCase, NoSTT))

Init ==
    /\ recording = FALSE
    /\ conversation = <<>>
    /\ current_language_code = "en-IN"
    /\ symptom_checker_active = FALSE
    /\ symptom_checker_instance = None
    /\ pending_symptom_question_data = None
    /\ voice_input_stage = None
    /\ captured_audio_data = None
    /\ cleaned_audio_data = None
    /\ extracted_symptoms = <<>>
    /\ follow_up_answers = <<>>
    /\ last_advice_given = EmptyText
    /\ user_profile = None
    /\ supabase_configured = FALSE
    /\ supabase_session = None
    /\ chat_list = <<>>
    /\ current_chat_id = None
    /\ persistent_memory = NoMemory
    /\ db_chats = <<>>
    /\ db_memory = [u \in Users |-> NoMemory]
    /\ db_profile = [u \in Users |-> None]
    /\ turn = [op |-> "init", submitted |-> FALSE, pending_at_start |-> FALSE,
               checker_at_start |-> None, path |-> <<>>, did |-> {},
               appended |-> <<>>, answers_added |-> 0, failure |-> "",
               raised |-> FALSE, questions |-> 0, clean |-> TRUE,
               input |-> EmptyText, nlu |-> None, backend |-> <<>>,
               append_first |-> TRUE, context |-> None, logged_in |-> FALSE,
               log_kept |-> TRUE, symptoms_kept |-> TRUE,
               stale_at_start |-> FALSE, reset_before_nlu |-> FALSE,
               detected |-> "", stt_translations |-> <<>>, mirrored |-> TRUE]

\* the session is active and no question is pending (the test of line 1087
\* after the one of line 1080 failed)
Stale == symptom_checker_active /\ ~Truthy(pending_symptom_question_data)

\* a further turn may start: a new query while the log is short (a stale
\* session has room for the one that resets it, a chat in the second language
\* for one message less), an answer to a pending question while the answers
\* are few
Room(answering) ==
    /\ IF answering THEN Len(follow_up_answers) < MaxAnswers
       ELSE Len(conversation) + (IF current_language_code = "en-IN" THEN 0 ELSE 1)
              < MaxConv + (IF Stale THEN 1 ELSE 0)
    /\ (supabase_configured /\ ~Truthy(current_chat_id)) => Len(db_chats) < MaxChats

\* the auth gate of lines 721-762 lets the script through: with a backend
\* configured the pages are rendered for a signed-in session only
PastAuthGate == supabase_configured => Truthy(supabase_session)

\* the input widgets are rendered only when the script body got past the
\* voice blocks, that is with no captured audio left
WidgetsRendered ==
    /\ ~Truthy(captured_audio_data)
    /\ supabase_configured => Truthy(supabase_session)

\* line 1313: the text area and the Send button are disabled while it holds
is_recording == voice_input_stage = Some("recording")

\* what the engines return in a text turn
TurnCases == IF LoggedIn THEN BackendCases ELSE EngineCases

\* the Send button: on_click=handle_text_submission (line 1325), with the
\* engines returning one of the cases
TextSubmissionOf(cases) ==
    /\ Room(symptom_checker_active /\ Truthy(pending_symptom_question_data))
    /\ WidgetsRendered
    /\ ~is_recording
    /\ \E input \in Inputs : \E f \in FaultsOf(TurnFaults) : \E c \in cases :
          /\ strip(input).len = 0 => (f = NoFault /\ c = AnyOf(cases))
          /\ \E w \in {handle_text_submission(World(Env(f, c, NoSTT)), input)} :
                 /\ f /= NoFault => w.fired
                 /\ Commit(script_preamble(w), "text")

TextSubmission == TextSubmissionOf(TurnCases)

\* the cases explored for the memory sync: a message that names 21 symptoms
\* and gets the long response, a message that names none, a symptom query
\* that is assessed at once
MemoryCases ==
    {[nlu |-> NLU("other", FALSE, ManySymptoms), nq |-> 0],
     [nlu |-> NLU("other", FALSE, <<>>), nq |-> 0],
     [nlu |-> NLU("symptom_query", FALSE, <<"fever">>), nq |-> 0]}

\* a typed run of the memory-sync cases
MemorySubmission == TextSubmissionOf(MemoryCases)


\* what the transcription utility returns in a run, with the rest of the
\* environment: a capture or transcription fault leaves nothing to choose,
\* and an empty transcription never reaches the engines
VoiceEnvs ==
    {e \in [fault : FaultsOf(TurnFaults \cup VoiceFaults), c : EngineCases,
            t : Transcriptions, l : LanguageCodes] :
        /\ e.fault.pt \in {"decode", "clean", "stt"} =>
              (e.t = EmptyText /\ e.l = current_language_code)
        /\ strip(e.t).len = 0 => e.c = AnyCase
        /\ e.l /= current_language_code => e.fault.pt \in {"none", "stt_translate"}}
VoiceEnv(e) == Env(e.fault, e.c, [transcription |-> e.t, language_detected |-> e.l])

\* the recorder returns audio (lines 1337-1339) and the script reruns
VoiceInput ==
    /\ Room(FALSE) /\ WidgetsRendered
    /\ \E bytes \in AudioBytes : \E e \in VoiceEnvs :
          \E r \in {voice_pipeline(script_preamble(
                        [World(VoiceEnv(e)) EXCEPT !.captured_audio_data = Some(bytes)]))} :
              /\ e.fault /= NoFault => r.fired
              /\ Commit(r, "voice")

\* a rerun of the script on the chat page with captured audio left over
Rerun ==
    /\ Room(FALSE) /\ Truthy(captured_audio_data)
    /\ \E e \in VoiceEnvs :
          \E r \in {voice_pipeline(script_preamble(
                        Log(World(VoiceEnv(e)), "leftover_audio", "", EmptyText)))} :
              /\ e.fault /= NoFault => r.fired
              /\ Commit(r, "voice")

\* the chat-language selector changed (lines 854-867)
LanguageSwitch ==
    /\ PastAuthGate
    /\ \E selected \in LanguageCodes \ {current_language_code} :
        Commit(script_preamble(
                   [ClearSymptomSession(Quiet) EXCEPT
                       !.current_language_code = selected,
                       !.conversation = <<>>,
                       !.voice_input_stage = None,
                       !.extracted_symptoms = <<>>,
                       !.follow_up_answers = <<>>,
                       !.last_advice_given = EmptyText,
                       !.user_profile = None]),
               "language")

\* "Clear session data" on the settings page (lines 1481-1492)
ClearSession ==
    /\ PastAuthGate
    /\ Commit(script_preamble(
                  [ClearSymptomSession(Quiet) EXCEPT
                      !.conversation = <<>>,
                      !.extracted_symptoms = <<>>,
                      !.follow_up_answers = <<>>,
                      !.last_advice_given = EmptyText,
                      !.user_profile = None]),
              "clear")

\* the auth gate (lines 722-762) and the first script run after it
SignIn ==
    /\ supabase_configured /\ ~Truthy(supabase_session)
    /\ \E uid \in Users :
          Commit(script_preamble([Quiet EXCEPT !.supabase_session = Some(uid)]),
                 "sign_in")

\* "Yes, log out" on the settings page (lines 1462-1470)
Logout ==
    /\ LoggedIn /\ Len(db_chats) < MaxChats
    /\ Commit([Quiet EXCEPT !.supabase_session = None,
                            !.chat_list = <<>>,
                            !.current_chat_id = None,
                            !.conversation = <<>>,
                            !.persistent_memory = NoMemory],
              "logout")

\* "New chat" (lines 835-838)
NewChat ==
    /\ LoggedIn /\ Len(db_chats) < MaxChats /\ Truthy(current_chat_id)
    /\ Commit(script_preamble([Quiet EXCEPT !.current_chat_id = None,
                                            !.conversation = <<>>]),
              "new_chat")

\* what messages_list(cid) returns for a stored conversation, as line 844
\* copies it into the log (role and content, no language tag): the rows are
\* written by every session of the user, so the model draws them
StoredLogs ==
    {<<>>,
     <<[role |-> "user", content |-> Text(<<"hello">>, "", 5), lang |-> ""],
       [role |-> "assistant", content |-> BotResponse, lang |-> ""]>>}

\* a button of the chat list (lines 841-849): the stored messages replace
\* the log and the script reruns; when messages_list raises nothing is set
LoadChat ==
    /\ LoggedIn
    /\ \E i \in 1..Len(chat_list) : \E msgs \in StoredLogs : \E raised \in BOOLEAN :
          Commit(script_preamble(
                     IF raised THEN Quiet
                     ELSE [Quiet EXCEPT !.conversation = msgs,
                                        !.current_chat_id = Some(chat_list[i].id)]),
                 IF raised THEN "load_chat_failed" ELSE "load_chat")

\* the profiles a user can save
Profiles == {"p1"}

\* "Save profile" (lines 913-939): the session copy is set, the backend copy
\* when user_profile_upsert succeeds, and the script reruns
SaveProfile ==
    /\ WidgetsRendered
    /\ \E p \in Profiles : \E stored \in BOOLEAN :
          Commit(script_preamble(
                     [Quiet EXCEPT
                         !.user_profile = Some(p),
                         !.db_profile = IF LoggedIn /\ stored
                                        THEN [@ EXCEPT ![Get(supabase_session)] = Some(p)]
                                        ELSE @]),
                 "profile")

Next ==
    \/ TextSubmission
    \/ VoiceInput
    \/ Rerun
    \/ LanguageSwitch
    \/ ClearSession

Spec == Init /\ [][Next]_vars

\* the user presses Record: the mic_recorder component (lines 1327-1334)
\* starts to capture in the browser and returns nothing to the script until
\* the capture stops
StartRecording ==
    /\ WidgetsRendered
    /\ ~recording
    /\ recording' = TRUE
    /\ UNCHANGED <<conversation, current_language_code, symptom_checker_active,
                   symptom_checker_instance, pending_symptom_question_data,
                   voice_input_stage, captured_audio_data, cleaned_audio_data,
                   extracted_symptoms, follow_up_answers, last_advice_given,
                   user_profile, supabase_configured, supabase_session, chat_list,
                   current_chat_id, persistent_memory, db_chats, db_memory,
                   db_profile, turn>>

\* the chat page with the start of a capture as a step of its own
NextVoice ==
    \/ StartRecording
    \/ VoiceInput
    \/ TextSubmission

SpecVoice == Init /\ [][NextVoice]_vars

\* the application with the persistence backend configured: the auth gate
\* comes first
InitBackend ==
    /\ recording = FALSE
    /\ conversation = <<>>
    /\ current_language_code = "en-IN"
    /\ symptom_checker_active = FALSE
    /\ symptom_checker_instance = None
    /\ pending_symptom_question_data = None
    /\ voice_input_stage = None
    /\ captured_audio_data = None
    /\ cleaned_audio_data = None
    /\ extracted_symptoms = <<>>
    /\ follow_up_answers = <<>>
    /\ last_advice_given = EmptyText
    /\ user_profile = None
    /\ supabase_configured = TRUE
    /\ supabase_session = None
    /\ chat_list = <<>>
    /\ current_chat_id = None
    /\ persistent_memory = NoMemory
    /\ db_chats = <<>>
    /\ db_memory = [u \in Users |-> NoMemory]
    /\ db_profile = [u \in Users |-> None]
    /\ turn = [op |-> "init", submitted |-> FALSE, pending_at_start |-> FALSE,
               checker_at_start |-> None, path |-> <<>>, did |-> {},
               appended |-> <<>>, answers_added |-> 0, failure |-> "",
               raised |-> FALSE, questions |-> 0, clean |-> TRUE,
               input |-> EmptyText, nlu |-> None, backend |-> <<>>,
               append_first |-> TRUE, context |-> None, logged_in |-> FALSE,
               log_kept |-> TRUE, symptoms_kept |-> TRUE,
               stale_at_start |-> FALSE, reset_before_nlu |-> FALSE,
               detected |-> "", stt_translations |-> <<>>, mirrored |-> TRUE]

NextBackend ==
    \/ SignIn
    \/ SaveProfile
    \/ TextSubmission
    \/ LanguageSwitch

SpecBackend == InitBackend /\ [][NextBackend]_vars

\* the signed-in application with the messages that exercise the memory sync
NextMemory ==
    \/ SignIn
    \/ MemorySubmission
    \/ LanguageSwitch

SpecMemory == InitBackend /\ [][NextMemory]_vars

\* a typed run in which no collaborator fails
TextSubmissionNoFault ==
    /\ TextSubmission
    /\ turn'.failure = ""

\* the signed-in application with its chat list and the logout, with
\* collaborators that work
NextChats ==
    \/ SignIn
    \/ TextSubmissionNoFault
    \/ NewChat
    \/ LoadChat
    \/ Logout
    \/ ClearSession

SpecChats == InitBackend /\ [][NextChats]_vars

----------------------------------------------------------------------------
(* Properties. *)

Took(h) == \E i \in 1..Len(turn.path) : turn.path[i] = h
SessionClosed ==
    /\ ~symptom_checker_active
    /\ symptom_checker_instance = None
    /\ pending_symptom_question_data = None
\* the test of line 1080: the next text submission is taken as an answer
RoutesAsFollowUp == symptom_checker_active /\ Truthy(pending_symptom_question_data)
VoiceIdle ==
    /\ voice_input_stage = None
    /\ captured_audio_data = None
    /\ cleaned_audio_data = None

\* C1: a non-empty text submission enters exactly one of
\* handle_follow_up_answer and process_and_display_response, once: the first
\* when the session was active with a question pending, the second otherwise.
C1_ExactlyOnePath ==
    (turn.op = "text" /\ turn.submitted) =>
        /\ Times(turn.path, "handle_follow_up_answer")
             + Times(turn.path, "process_and_display_response") = 1
        /\ turn.pending_at_start <=> Took("handle_follow_up_answer")
C1_Witness ==
    /\ turn.op = "text" /\ turn.submitted /\ turn.pending_at_start
    /\ Took("handle_follow_up_answer")

\* C2: a non-empty transcription is routed as the same typed text would be:
\* with a question pending in an active session it is recorded as the answer
\* (one follow_up_answers entry, record_answer called), and only otherwise
\* is it processed as a new query.
C2_VoiceRoutedAsTyped ==
    (turn.op = "voice" /\ turn.submitted) =>
        IF turn.pending_at_start
        THEN /\ Took("handle_follow_up_answer")
             /\ ~Took("process_and_display_response")
             /\ turn.answers_added = 1
        ELSE Took("process_and_display_response")

\* C3: every accepted submission, typed or spoken, new query or answer,
\* appends exactly one user message to the log.
C3_OneUserMessage ==
    turn.submitted => Times(turn.appended, "user") = 1
C3_Witness ==
    /\ turn.submitted /\ Took("handle_follow_up_answer")
    /\ Times(turn.appended, "user") = 1

C5_RoutingFailureCaught ==
    turn.failure = "routing" =>
        /\ ~turn.raised
        /\ Times(turn.appended, "system") = 1
        /\ SessionClosed
        /\ voice_input_stage = None

\* C6: after a failure caught inside process_and_display_response the voice
\* stage is idle, the symptom session is closed, and the run has appended the
\* user message of the turn and then exactly one system message.
C6_ProcessFailureState ==
    (Took("process_and_display_response") /\ turn.failure = "routing") =>
        /\ ~turn.raised
        /\ voice_input_stage = None
        /\ SessionClosed
        /\ turn.appended = <<"user", "system">>
        /\ Len(conversation) >= 2
        /\ conversation[Len(conversation) - 1].role = "user"
        /\ conversation[Len(conversation)].role = "system"
C6_Witness ==
    /\ Took("process_and_display_response") /\ turn.failure = "routing"
    /\ "SymptomChecker" \in turn.did
    /\ SessionClosed

\* C7: a turn that ended in a failure of a routing collaborator leaves the
\* session so that the next text submission is routed as a new query, not as
\* the answer to a question the failed turn left pending.
C7_FailureLeavesNewQueryRouting ==
    turn.failure = "routing" => ~RoutesAsFollowUp

\* C8: after every run of the voice pipeline, whatever its outcome, the voice
\* stage is idle and the captured and the cleaned audio are cleared.
C8_VoiceTornDown ==
    turn.op = "voice" => VoiceIdle

\* C9: an empty or whitespace-only transcription appends exactly one system
\* message and no user message, enters no routing handler, and leaves the
\* voice stage idle with both audio buffers cleared.
C9_EmptyTranscription ==
    "transcribed_empty" \in turn.did =>
        /\ turn.appended = <<"system">>
        /\ ~turn.submitted
        /\ turn.path = <<>>
        /\ VoiceIdle
C9_Witness ==
    /\ "transcribed_empty" \in turn.did
    /\ turn.appended = <<"system">>
    /\ VoiceIdle

\* C10: a new symptom session whose checker has no first question is assessed
\* in the same turn: no question message is appended, the run appends the
\* assessment after the user message unless the assessment call itself
\* fails, and the session is closed when the turn ends.
C10_NoFirstQuestion ==
    ({"SymptomChecker", "no_next_question"} \subseteq turn.did) =>
        /\ Took("generate_and_display_assessment")
        /\ "ask" \notin turn.did
        /\ turn.failure /= "routing" => turn.appended = <<"user", "assistant">>
        /\ SessionClosed
C10_Witness ==
    /\ {"SymptomChecker", "no_next_question"} \subseteq turn.did
    /\ turn.failure = ""
    /\ turn.appended = <<"user", "assistant">>
    /\ SessionClosed

\* the symptom entities of an NLU result are all in extracted_symptoms
Extracted(nlu) ==
    \A i \in 1..Len(nlu.symptoms) :
        \E j \in 1..Len(extracted_symptoms) : extracted_symptoms[j] = nlu.symptoms[i]
\* the last message of the log is an assistant message carrying question q
LastMessageAsks(q) ==
    /\ conversation /= <<>>
    /\ conversation[Len(conversation)].role = "assistant"
    /\ conversation[Len(conversation)].content.body[1] = q.question.body[1]

\* C11: on the new-query path, when no routing collaborator raises, a
\* symptom session is created exactly when the NLU intent is symptom query
\* and the result is not an emergency; if the checker then has a first
\* question the session is active with that question pending, the NLU
\* symptoms are in extracted_symptoms and one assistant message carrying the
\* question was appended; without a session the response generator ran, one
\* assistant message was appended and the session is not active.
C11_SessionCreation ==
    (Took("process_and_display_response") /\ turn.failure /= "routing"
        /\ Truthy(turn.nlu)) =>
        /\ "SymptomChecker" \in turn.did
              <=> (Get(turn.nlu).intent = "symptom_query" /\ ~Get(turn.nlu).is_emergency)
        /\ {"SymptomChecker", "get_next_question"} \subseteq turn.did =>
              /\ RoutesAsFollowUp
              /\ Truthy(symptom_checker_instance)
              /\ Get(symptom_checker_instance).asked = 1
              /\ Get(pending_symptom_question_data)
                    = QuestionOf(Get(symptom_checker_instance), 1)
              /\ Extracted(Get(turn.nlu))
              /\ Times(turn.appended, "assistant") = 1
              /\ "ask" \in turn.did
              /\ LastMessageAsks(Get(pending_symptom_question_data))
        /\ "SymptomChecker" \notin turn.did =>
              /\ "generate_response" \in turn.did
              /\ Times(turn.appended, "assistant") = 1
              /\ ~Took("generate_and_display_assessment")
              /\ ~symptom_checker_active
              /\ symptom_checker_instance = turn.checker_at_start
                    \/ symptom_checker_instance = None
C11_Witness ==
    /\ Took("process_and_display_response") /\ turn.failure = ""
    /\ {"SymptomChecker", "get_next_question"} \subseteq turn.did
    /\ RoutesAsFollowUp
    /\ Len(Get(turn.nlu).symptoms) = 2
    /\ Extracted(Get(turn.nlu))
    /\ turn.appended = <<"user", "assistant">>

\* one of the named backend calls raised in the run
BackendRaised(names) ==
    \E i \in 1..Len(turn.backend) :
        turn.backend[i].role = "backend" /\ turn.backend[i].call \in names
\* the log ends with the messages the run appended
LogEndsWith(roles) ==
    /\ Len(conversation) >= Len(roles)
    /\ \A i \in 1..Len(roles) :
          conversation[Len(conversation) - Len(roles) + i].role = roles[i]

\* C12: when chat_create, chats_list, message_insert or user_memory_upsert
\* raises in a turn, no exception leaves the handler, the user message and
\* the normal assistant reply are in the in-memory log and no system message
\* was appended; in every run each persistence call of a message comes after
\* the local append of that message.
C12_PersistenceFailureSwallowed ==
    /\ turn.append_first
    /\ BackendRaised({"chat_create", "chats_list", "message_insert", "user_memory_upsert"}) =>
          /\ ~turn.raised
          /\ turn.appended = <<"user", "assistant">>
          /\ LogEndsWith(turn.appended)
C12_Witness ==
    /\ BackendRaised({"message_insert"})
    /\ turn.backend[1].call = "chat_create"
    /\ turn.appended = <<"user", "assistant">>
    /\ LogEndsWith(turn.appended)
    /\ ~turn.raised

\* C13: while the backend is unconfigured or no session is signed in, a turn
\* (whose handlers call _persist_message_to_db and, on the direct response and
\* assessment paths, _save_health_context_to_memory) makes no backend call,
\* leaves current_chat_id, chat_list and persistent_memory as they were, and
\* no exception of the backend is raised.
C13_NoBackendNoEffect ==
    [][(~LoggedIn /\ turn'.op \in {"text", "voice"}) =>
          /\ turn'.backend = <<>>
          /\ turn'.failure /= "backend"
          /\ current_chat_id' = current_chat_id
          /\ chat_list' = chat_list
          /\ persistent_memory' = persistent_memory]_vars
C13_Witness ==
    /\ ~turn.logged_in
    /\ turn.op = "text" /\ turn.submitted
    /\ "generate_response" \in turn.did
    /\ turn.appended = <<"user", "assistant">>
    /\ turn.backend = <<>>
    /\ extracted_symptoms /= <<>>
    /\ last_advice_given.len > 0

\* C14: after a chat-language switch, in whatever state it was made,
\* extracted_symptoms, follow_up_answers and the conversation are empty,
\* last_advice_given is empty, user_profile is empty, the symptom session is
\* closed and the voice stage is idle.
C14_LanguageSwitchClears ==
    turn.op = "language" =>
        /\ extracted_symptoms = <<>>
        /\ follow_up_answers = <<>>
        /\ conversation = <<>>
        /\ last_advice_given = EmptyText
        /\ user_profile = None
        /\ SessionClosed
        /\ voice_input_stage = None

\* the conversation records created in the run, as indices of turn.backend
Created == {i \in 1..Len(turn.backend) :
               turn.backend[i].call = "chat_create" /\ turn.backend[i].role /= "backend"}

\* C15: a conversation record is created only while the user message of the
\* run is persisted, before any message is inserted; persisting an assistant
\* message never creates one, and a run creates at most one.
C15_ChatCreatedForFirstUserMessage ==
    /\ Cardinality(Created) <= 1
    /\ \A i \in Created :
          /\ turn.backend[i].role = "user"
          /\ \A j \in 1..(i - 1) : turn.backend[j].call /= "message_insert"

\* C16: when the text that was just recorded as a follow-up answer is
\* submitted again in the next run, that run adds no second entry to
\* follow_up_answers.
C16_DuplicateAnswerIgnored ==
    [][(/\ turn.op = "text" /\ turn.answers_added = 1
        /\ turn'.op = "text" /\ turn'.submitted
        /\ turn'.input = turn.input) =>
          /\ turn'.answers_added = 0
          /\ Len(follow_up_answers') = Len(follow_up_answers)]_vars

\* C17: after a turn of a signed-in user in which no call failed and which
\* set last_advice_given (a direct response, or an assessment), the memory
\* key last_advice holds the new last_advice_given.
C17_MemoryHoldsAdviceOfTurn ==
    (/\ turn.logged_in /\ turn.failure = ""
     /\ "generate_response" \in turn.did \/ Took("generate_and_display_assessment")) =>
        /\ last_advice_given.len > 0
        /\ persistent_memory.last_advice = Some(last_advice_given)

\* C18: the session context handed to the response generator holds at most
\* SymptomsCap extracted symptoms and as many follow-up answers, and a
\* last_advice_given of at most 800 characters, whatever the session has
\* accumulated.
C18_ContextBounded ==
    Truthy(turn.context) =>
        /\ Get(turn.context).extracted_symptoms <= SymptomsCap
        /\ Get(turn.context).follow_up_answers <= SymptomsCap
        /\ Get(turn.context).last_advice_given <= 800

\* C19: when the fetch of the recent messages of other chats raises, the
\* context is complete with an empty past_messages, the response generator is
\* called, and the run appends the user message and an assistant message, no
\* system message; no exception leaves the handler.
C19_ContextToleratesBackend ==
    BackendRaised({"get_recent_messages_from_other_chats"}) =>
        /\ Truthy(turn.context)
        /\ Get(turn.context).past_messages = 0
        /\ "generate_response" \in turn.did
        /\ turn.appended = <<"user", "assistant">>
        /\ LogEndsWith(turn.appended)
        /\ ~turn.raised
C19_Witness ==
    /\ BackendRaised({"get_recent_messages_from_other_chats"})
    /\ "generate_response" \in turn.did
    /\ Get(turn.context).past_messages = 0
    /\ turn.appended = <<"user", "assistant">>
    /\ last_advice_given = BotResponse

\* C20: a run that is entered with captured audio left over from an
\* interrupted run ends with the voice stage idle and the buffers empty, and
\* it neither decodes nor transcribes the leftover audio.
C20_AbandonedCaptureReset ==
    "leftover_audio" \in turn.did =>
        /\ VoiceIdle
        /\ turn.did \cap {"transcribe_audio", "transcribed_empty"} = {}
        /\ turn.failure /= "voice"
        /\ ~turn.submitted

\* the content of the last message of the log
LastContent == conversation[Len(conversation)].content

C22_InactiveSessionIsCleared ==
    ~symptom_checker_active =>
        /\ pending_symptom_question_data = None
        /\ symptom_checker_instance = None

\* the first user message of the run comes before every reply of the run
UserMessageFirst(roles) ==
    \A i \in 1..Len(roles) : roles[i] = "user" => i = 1

C24_SubmissionGetsReply ==
    turn.submitted =>
        /\ Len(turn.appended) >= 2
        /\ turn.appended[1] = "user"
        /\ turn.appended[2] \in {"assistant", "system"}
        /\ conversation[Len(conversation)].role \in {"assistant", "system"}

\* no name occurs twice in the sequence
NoDuplicates(seq) ==
    \A i, j \in 1..Len(seq) : seq[i] = seq[j] => i = j

LastAnswer == follow_up_answers[Len(follow_up_answers)]
\* the question that was pending when the run started
AskedAtStart ==
    QuestionOf(Get(turn.checker_at_start), Get(turn.checker_at_start).asked)

\* C26: a typed or spoken run adds an entry to follow_up_answers exactly when the checker
\* accepted the answer through record_answer, and the entry carries the
\* answer of the run with the symptom name and the question that were
\* pending when it arrived.
C26_AnswersMirrorChecker ==
    turn.op \in {"text", "voice"} =>
        /\ turn.answers_added = (IF "record_answer" \in turn.did THEN 1 ELSE 0)
        /\ turn.answers_added = 1 =>
              /\ LastAnswer.answer = turn.input
              /\ LastAnswer.question = AskedAtStart.question
              /\ LastAnswer.symptom_name = AskedAtStart.symptom_name

VoiceStages == {"arming", "recording", "transcribing", "processing_stt"}

\* C28: between runs the voice stage is idle or one of the stages, it is idle
\* unless a capture is in progress, and while a capture is in progress the
\* stage is recording, which disables the text input.
C28_RecordingStage ==
    /\ voice_input_stage \in {None} \cup {Some(stage) : stage \in VoiceStages}
    /\ ~recording => voice_input_stage = None
    /\ recording => (voice_input_stage = Some("recording") /\ is_recording)

C30_BackendMirrorsLog ==
    turn.mirrored

\* the follow-up handler was entered in the run
EnteredFollowUp ==
    \E i \in 1..Len(turn.path) : turn.path[i] = "handle_follow_up_answer"

\* C31: between runs an active symptom session has a checker instance, and
\* a typed run that enters handle_follow_up_answer takes the branch that
\* appends the user message, never the one that only warns.
C31_ActiveSessionHasInstance ==
    /\ symptom_checker_active => Truthy(symptom_checker_instance)
    /\ (turn.op = "text" /\ EnteredFollowUp) =>
          (turn.appended /= <<>> /\ turn.appended[1] = "user")
C31_Witness ==
    /\ turn.op = "text"
    /\ EnteredFollowUp
    /\ turn.failure = "routing"
    /\ symptom_checker_active
    /\ Truthy(symptom_checker_instance)

\* C32: a new chat or a loaded chat leaves no pending follow-up question,
\* and the first text typed after it is routed as a new query, never to
\* handle_follow_up_answer.
C32_ChatChangeDropsQuestion ==
    [][/\ turn'.op \in {"new_chat", "load_chat"} =>
              ~(symptom_checker_active' /\ Truthy(pending_symptom_question_data'))
       /\ (turn.op \in {"new_chat", "load_chat"} /\ turn'.op = "text" /\ turn'.submitted) =>
              ~EnteredFollowUp']_vars

\* C33: after a logout the session holds no health context of the user who
\* left: no extracted symptom, no follow-up answer, no advice, and the
\* symptom session is closed.
C33_LogoutDropsHealthContext ==
    turn.op = "logout" =>
        /\ extracted_symptoms = <<>>
        /\ follow_up_answers = <<>>
        /\ last_advice_given.len = 0
        /\ SessionClosed

\* C34: when a language switch or clear-session has emptied the log,
\* current_chat_id is None, so that the next user message opens a new
\* conversation record.
C34_LogResetLeavesNoChat ==
    (turn.op \in {"language", "clear"} /\ conversation = <<>>) => ~Truthy(current_chat_id)

\* C35: a run that creates a symptom session leaves follow_up_answers
\* without an answer of an earlier session, that is empty, since the answers
\* of the new session come in later runs.
C35_NewSessionStartsWithoutAnswers ==
    "SymptomChecker" \in turn.did => follow_up_answers = <<>>

\* C36: a text submission with an empty or whitespace-only input leaves the
\* log, the symptom session, the session memory, the voice stage and the
\* backend as they were, and calls no collaborator.
C36_BlankSubmissionChangesNothing ==
    [][(turn'.op = "text" /\ ~turn'.submitted) =>
          /\ UNCHANGED <<conversation, symptom_checker_active,
                         symptom_checker_instance, pending_symptom_question_data,
                         follow_up_answers, extracted_symptoms, last_advice_given,
                         voice_input_stage, db_chats, db_memory, db_profile>>
          /\ turn'.path = <<>>
          /\ turn'.did = {}
          /\ turn'.backend = <<>>
          /\ turn'.appended = <<>>]_vars
C36_Witness ==
    /\ turn.op = "text"
    /\ ~turn.submitted
    /\ turn.logged_in
    /\ Truthy(current_chat_id)
    /\ RoutesAsFollowUp

\* a value of user_memory is absent or written within its limit: not empty,
\* an advice of at most 800 characters, at most 20 symptoms
WithinLimits(memory) ==
    /\ Truthy(memory.last_advice) =>
          (Get(memory.last_advice).len > 0 /\ Get(memory.last_advice).len <= 800)
    /\ Truthy(memory.last_symptoms) =>
          (Get(memory.last_symptoms) /= <<>>
           /\ Len(Get(memory.last_symptoms)) <= SymptomsCap)

\* C37: last_advice_given has at most 800 characters, and every value the
\* memory sync wrote, in the backend and in the session copy, is a non-empty
\* advice of at most 800 characters or a non-empty list of at most 20
\* symptoms.
C37_MemoryWithinLimits ==
    /\ last_advice_given.len <= 800
    /\ WithinLimits(persistent_memory)
    /\ \A u \in Users : WithinLimits(db_memory[u])
C37_Witness ==
    /\ Len(extracted_symptoms) > SymptomsCap
    /\ last_advice_given = Truncate(LongResponse, 800)
    /\ db_memory["u1"].last_advice = Some(Truncate(LongResponse, 800))
    /\ Truthy(db_memory["u1"].last_symptoms)
    /\ Len(Get(db_memory["u1"].last_symptoms)) = SymptomsCap

====
